---- MODULE Spec2Model ----
(***************************************************************************)
(* State-machine model of rm_serial_driver (RMSerialDriver): the           *)
(* constructor, the receive worker (receiveData), the command callback     *)
(* (sendData), the reconnection routine (reopenPort), the colour request   *)
(* (requestforChangeColor) and the destructor, over a serial port whose    *)
(* operations block and may raise I/O errors.                              *)
(*                                                                         *)
(* Two flows run concurrently: "main" (constructor, then the executor that *)
(* dispatches sendData, then the destructor) and "rx" (the std::thread     *)
(* running receiveData).  A flow whose pc names a port operation is inside *)
(* that operation; the operation's effect and outcome are taken when the   *)
(* flow leaves that pc.                                                    *)
(***************************************************************************)
EXTENDS Integers, Sequences

(* ------------------------------ bounds -------------------------------- *)
\* chunks (frames or stray bytes) the peer puts on the link before it goes silent
MaxChunks == 2
\* I/O errors the environment injects into port operations
MaxFaults == 2
\* command messages the command source delivers
MaxSends == 1
\* environment events (chunks, injected errors, commands) in one run
MaxEvents == 2
\* the counters kept for one reopenPort call stop counting here
MaxCount == 3

(* --------------------------- program constants ------------------------ *)
\* header sentinel tested by receiveData
HEADER == 90
\* present_color_ before any update
UNKNOWN_COLOR == -1
\* sizeof(ReceivePacket): header, robot_color, pitch, yaw, checksum (packed)
RECEIVE_PACKET_SIZE == 12
\* sizeof(SendPacket): three one-byte fields, six floats, checksum (packed)
SEND_PACKET_SIZE == 29
\* initial CRC register and reflected polynomial of the checksum engine
CRC16_INIT == 65535
CRC16_POLY == 33800

Flows == {"main", "rx"}

(* ------------------------------ bytes --------------------------------- *)
RECURSIVE Xor(_, _)
\* bitwise exclusive or of two naturals
Xor(a, b) ==
    IF a = 0 THEN b
    ELSE IF b = 0 THEN a
    ELSE (((a % 2) + (b % 2)) % 2) + 2 * Xor(a \div 2, b \div 2)

\* the four bytes of a 32-bit pattern (held as a signed 32-bit integer), least
\* significant first: the memcpy of a float into the byte vector
LE32(w) == << w % 256, (w \div 256) % 256, (w \div 65536) % 256, (w \div 16777216) % 256 >>

\* the 32-bit pattern stored in bytes s[i..i+3], least significant first, as a
\* signed 32-bit integer
Word32(s, i) ==
    s[i] + 256 * s[i + 1] + 65536 * s[i + 2]
    + 16777216 * (IF s[i + 3] >= 128 THEN s[i + 3] - 256 ELSE s[i + 3])

(* --------------------------- checksum engine -------------------------- *)
RECURSIVE TableEntry(_, _)
\* entry of the lookup table: k shift rounds of the reflected polynomial
TableEntry(v, k) ==
    IF k = 0 THEN v
    ELSE TableEntry(IF v % 2 = 1 THEN Xor(v \div 2, CRC16_POLY) ELSE v \div 2, k - 1)

W_CRC_TABLE == [i \in 0..255 |-> TableEntry(i, 8)]

RECURSIVE Get_CRC16_Check_Sum(_, _, _)
\* table-driven CRC over the first n bytes of s, starting from register wCRC: for
\* each byte, wCRC = (wCRC >> 8) ^ table[(wCRC ^ byte) & 0xff]
Get_CRC16_Check_Sum(s, n, wCRC) ==
    IF n = 0 THEN wCRC
    ELSE CHOOSE next \in { Xor(prev \div 256, W_CRC_TABLE[Xor(prev, s[n]) % 256]) :
                               prev \in { Get_CRC16_Check_Sum(s, n - 1, wCRC) } } : TRUE

\* checksum of all but the last two bytes equals the last two bytes, low byte first
Verify_CRC16_Check_Sum(s) ==
    /\ Len(s) > 2
    /\ LET w == Get_CRC16_Check_Sum(s, Len(s) - 2, CRC16_INIT)
       IN  /\ w % 256 = s[Len(s) - 1]
           /\ (w \div 256) % 256 = s[Len(s)]

\* writes the checksum of all but the last two bytes into the last two bytes
Append_CRC16_Check_Sum(s) ==
    IF Len(s) <= 2 THEN s
    ELSE LET w == Get_CRC16_Check_Sum(s, Len(s) - 2, CRC16_INIT)
         IN  [s EXCEPT ![Len(s) - 1] = w % 256, ![Len(s)] = (w \div 256) % 256]

(* ----------------------------- packet codec --------------------------- *)
\* ReceivePacket read out of its 12 bytes
fromVector(d) ==
    [header |-> d[1], robot_color |-> d[2],
     pitch |-> Word32(d, 3), yaw |-> Word32(d, 7),
     checksum |-> d[11] + 256 * d[12]]

\* the bytes of a SendPacket in wire order, its checksum field last (little-endian)
toVector(p) ==
    << (IF p.target_found THEN 1 ELSE 0), (IF p.target_color THEN 1 ELSE 0), p.task_mode >>
    \o LE32(p.x) \o LE32(p.y) \o LE32(p.z) \o LE32(p.vx) \o LE32(p.vy) \o LE32(p.vz)
    \o << p.checksum % 256, (p.checksum \div 256) % 256 >>

(* ------------------------------ inputs -------------------------------- *)
\* a telemetry frame as the peer sends it: header, colour, pitch 1.0, yaw 2.0, checksum
GoodFrame(color) ==
    Append_CRC16_Check_Sum(<< HEADER, color >> \o LE32(1065353216) \o LE32(1073741824) \o << 0, 0 >>)

\* the same frame with one bit of its checksum flipped on the wire
Corrupt(f) == [f EXCEPT ![Len(f)] = Xor(f[Len(f)], 1)]

\* what the peer may put on the link: a stray byte, valid frames of either colour,
\* a corrupted frame, and a frame cut off after two bytes
ChunkSet == { << 165 >>, GoodFrame(0), GoodFrame(1), Corrupt(GoodFrame(0)), << HEADER, 1 >> }

\* command messages: target_found and the bit patterns of x, y, z, vx, vy, vz
\* (1.0, 2.0, 3.0 and -1.0, 0.5)
Msgs ==
    { [target_found |-> TRUE, x |-> 1065353216, y |-> 1073741824, z |-> 1077936128,
       vx |-> 0, vy |-> 0, vz |-> 0, none |-> FALSE],
      [target_found |-> FALSE, x |-> 0, y |-> 0, z |-> 0,
       vx |-> -1082130432, vy |-> 0, vz |-> 1056964608, none |-> FALSE] }

\* byte counts a short write may report
PartialLens == { 10 }

(* ------------------------------- state -------------------------------- *)
VARIABLES
    ok,              \* rclcpp::ok(): FALSE once shutdown is signalled
    portOpen,        \* serial_driver_->port()->is_open()
    link,            \* bytes the peer has sent and the port has not yet delivered
    chunks,          \* chunks the peer has sent so far
    faults,          \* I/O errors injected so far
    pc,              \* position of each flow
    ro,              \* per flow: what its current reopenPort call has done
    present_color_,  \* cached present colour
    header,          \* receiveData's one-byte header buffer
    iter,            \* what the current receive iteration has done
    joint_state,     \* the last joint state published on /joint_states
    msg,             \* the command message sendData was called with
    packet,          \* sendData's encoded frame
    tx,              \* what the current sendData call has done
    wire,            \* the bytes the port accepted for the current command
    sends,           \* commands dispatched to sendData
    latency,         \* messages published on /latency
    subscribed,      \* target_sub_ exists
    threadStarted,   \* receive_thread_ is joinable
    fetch,           \* initial get_parameters callback: none, pending, threw, done
    ctorOpened       \* port()->open() in the constructor has returned without error

rxLocal == << present_color_, header, iter, joint_state >>
txLocal == << msg, packet, tx, wire, sends, latency >>
nodeVars == << subscribed, threadStarted, fetch, ctorOpened >>

vars == << ok, portOpen, link, chunks, faults, pc, ro, rxLocal, txLocal, nodeVars >>

\* color: the decoded robot_color; before: present_color_ as the mismatch test read
\* it; reqColor: the argument of requestforChangeColor; ready: service_is_ready()
\* there; acked: the authority's answer to set_parameters; seen: the value of
\* set_auto_aim_success that the test after set_parameters read
NoIter == [consumed |-> 0, body |-> FALSE, decoded |-> FALSE, verified |-> FALSE,
           crc_ok |-> FALSE, published |-> FALSE, colorReq |-> 0, ioErr |-> FALSE,
           color |-> -1, before |-> -1, reqColor |-> -1, ready |-> FALSE,
           acked |-> "none", seen |-> FALSE]

NoReopen == [opens |-> 0, ofails |-> 0, cfails |-> 0, waits |-> 0,
             unwaited |-> FALSE, busy |-> FALSE, last |-> "none"]

\* no command is being handled
NoMsg == [target_found |-> FALSE, x |-> 0, y |-> 0, z |-> 0, vx |-> 0, vy |-> 0, vz |-> 0,
          none |-> TRUE]

NoTx == [writes |-> 0, failed |-> FALSE, short |-> FALSE, reopened |-> FALSE,
         outcome |-> "none"]

Init ==
    /\ ok = TRUE
    /\ portOpen = FALSE
    /\ link = << >>
    /\ chunks = 0
    /\ faults = 0
    /\ pc = [f \in Flows |-> IF f = "main" THEN "c_getParams" ELSE "none"]
    /\ ro = [f \in Flows |-> NoReopen]
    /\ present_color_ = UNKNOWN_COLOR
    /\ header = 0
    /\ iter = NoIter
    /\ joint_state = << >>
    /\ msg = NoMsg
    /\ packet = << >>
    /\ tx = NoTx
    /\ wire = << >>
    /\ sends = 0
    /\ latency = 0
    /\ subscribed = FALSE
    /\ threadStarted = FALSE
    /\ fetch = "none"
    /\ ctorOpened = FALSE

(* ------------------------------ helpers ------------------------------- *)
Goto(f, where) == pc' = [pc EXCEPT ![f] = where]

\* environment events so far
Events == chunks + faults + sends

\* a counter of one reopenPort call, counted up to MaxCount
Inc(n) == IF n < MaxCount THEN n + 1 ELSE n

\* the environment may still inject an I/O error
CanFault == faults < MaxFaults /\ Events < MaxEvents

\* port operations a flow can be inside of
PortOps == { "rx_hdr", "rx_body", "tx_send", "ro_close", "ro_open", "c_open", "d_close" }
InPortOp(f) == pc[f] \in PortOps

\* a flow is inside the assignment to present_color_: the worker at line 273 (the
\* fetch callback throws before its assignment, so the executor thread never is)
WritingColor(f) == f = "rx" /\ pc[f] = "rx_setcolor"

\* the executor thread is filling the SendPacket, which reads present_color_
ReadingColor(f) == f = "main" /\ pc[f] = "tx_build"

\* reopenPort's close/open sequence
InReopenSection(f) == pc[f] \in { "ro_close", "ro_open" }
InReopen(f) == pc[f] \in { "ro_enter", "ro_close", "ro_open", "ro_catch", "ro_sleep", "ro_ret" }

(* ----------------------------- reopenPort ----------------------------- *)
\* where the caller of reopenPort continues: the while test of receiveData, or the
\* end of sendData
ReopenContinuation(f) == IF f = "rx" THEN "loop" ELSE "tx_ret"

\* a retry that recurses at once, without the one-second sleep
ReopenRetryNoSleep(stillOk) == IF stillOk THEN "ro_enter" ELSE "ro_ret"

\* the catch block of reopenPort: sleep and recurse while rclcpp::ok(), else return
ReopenRetry(stillOk) == IF stillOk THEN "ro_sleep" ELSE "ro_ret"

\* "Attempting to reopen port", then the is_open() test
ReopenEnter(f) ==
    /\ pc[f] = "ro_enter"
    /\ Goto(f, IF portOpen THEN "ro_close" ELSE "ro_open")
    /\ ro' = [ro EXCEPT ![f].busy = ro[f].busy \/ ro[f].unwaited]
    /\ tx' = IF f = "main" THEN [tx EXCEPT !.reopened = TRUE] ELSE tx
    /\ UNCHANGED << ok, portOpen, link, chunks, faults, rxLocal, msg, packet, wire, sends,
                    latency, nodeVars >>

\* port()->close() returns or throws; the descriptor is closed either way
ReopenClose(f) ==
    /\ pc[f] = "ro_close"
    /\ portOpen' = FALSE
    /\ \/ /\ Goto(f, "ro_open")
          /\ UNCHANGED << faults, ro >>
       \/ /\ CanFault
          /\ faults' = faults + 1
          /\ ro' = [ro EXCEPT ![f].cfails = Inc(@), ![f].unwaited = TRUE, ![f].last = "fail"]
          /\ Goto(f, "ro_catch")
    /\ UNCHANGED << ok, link, chunks, rxLocal, txLocal, nodeVars >>

\* port()->open() returns or throws; opening a port that is already open throws
ReopenOpen(f) ==
    /\ pc[f] = "ro_open"
    /\ \/ /\ ~portOpen
          /\ portOpen' = TRUE
          /\ ro' = [ro EXCEPT ![f].opens = Inc(@), ![f].last = "ok"]
          /\ Goto(f, "ro_ret")
          /\ UNCHANGED faults
       \/ /\ portOpen \/ CanFault
          /\ faults' = IF portOpen THEN faults ELSE faults + 1
          /\ ro' = [ro EXCEPT ![f].opens = Inc(@), ![f].ofails = Inc(@),
                              ![f].unwaited = TRUE, ![f].last = "fail"]
          /\ Goto(f, "ro_catch")
          /\ UNCHANGED portOpen
    /\ UNCHANGED << ok, link, chunks, rxLocal, txLocal, nodeVars >>

\* catch: "Error while reopening port", then the rclcpp::ok() test
ReopenCatch(f) ==
    /\ pc[f] = "ro_catch"
    /\ Goto(f, ReopenRetry(ok))
    /\ UNCHANGED << ok, portOpen, link, chunks, faults, ro, rxLocal, txLocal, nodeVars >>

\* rclcpp::sleep_for(1 s) ends and reopenPort calls itself
ReopenSleep(f) ==
    /\ pc[f] = "ro_sleep"
    /\ ro' = [ro EXCEPT ![f].waits = Inc(@), ![f].unwaited = FALSE]
    /\ Goto(f, "ro_enter")
    /\ UNCHANGED << ok, portOpen, link, chunks, faults, rxLocal, txLocal, nodeVars >>

\* reopenPort (and every recursive frame of it) returns to its caller
ReopenReturn(f) ==
    /\ pc[f] = "ro_ret"
    /\ Goto(f, ReopenContinuation(f))
    /\ ro' = [ro EXCEPT ![f] = [NoReopen EXCEPT !.last = ro[f].last]]
    /\ UNCHANGED << ok, portOpen, link, chunks, faults, rxLocal, txLocal, nodeVars >>

(* ----------------------------- receiveData ---------------------------- *)
\* a loop that never tests for shutdown
LoopForever == TRUE

\* while (rclcpp::ok())
LoopCond == ok

\* a header test that lets every byte through
AnyHeader(b) == b = b

\* header[0] == 0x5A
IsHeader(b) == b = HEADER

\* a publish that ignores the result of the verification
PublishAlways(crc_ok) == crc_ok \/ TRUE

\* if (crc_ok): the joint state is published only for a verified frame
ShouldPublish(crc_ok) == crc_ok

\* else of the header test: "Invalid header" is logged, back to the while test
InvalidHeaderTarget == "loop"

\* a checksum failure that is answered with reopenPort
CrcErrorReopens == "ro_enter"

\* else of if (crc_ok): "CRC error!" is logged, back to the while test
CrcErrorTarget == "loop"

\* a catch block that only logs and goes back to the while test
RxCatchNoReopen == "loop"

\* catch in receiveData: log, then reopenPort()
RxCatchTarget == "ro_enter"

\* a mismatch test that asks for a colour change on every valid frame
ColorDiffersAlways(color, present) == TRUE

\* packet.robot_color != present_color_
ColorDiffers(color, present) == color # present

\* a requester that caches the colour whatever came of the request
ColorSetRegardless(ready, seen) == TRUE

\* requestforChangeColor assigns present_color_ when the service was ready and the
\* test of set_auto_aim_success read true
ColorIsSet(ready, seen) == ready /\ seen

\* present_color_ after requestforChangeColor(color); ready is service_is_ready(),
\* seen is the value of set_auto_aim_success that the test after set_parameters
\* reads, which the response callback may or may not have written by then
requestforChangeColor(color, ready, seen) ==
    IF ready
    THEN IF seen THEN color ELSE present_color_
    ELSE present_color_

\* what a call of requestforChangeColor can meet: the service is not ready and no
\* request is sent; or it is ready, the authority answers the asynchronous
\* set_parameters with success or failure, and the response callback has or has
\* not run by the time set_auto_aim_success is tested (the flag starts false, so
\* it reads true only for a success that has already arrived)
RequestOutcomes ==
    { [ready |-> FALSE, acked |-> "none", seen |-> FALSE] }
    \cup { [ready |-> TRUE, acked |-> IF successful THEN "success" ELSE "failure",
            seen |-> arrived /\ successful] : successful, arrived \in BOOLEAN }

\* the while test: start an iteration with receive(header), or leave the loop
RxLoop ==
    /\ pc["rx"] = "loop"
    /\ IF LoopCond
       THEN /\ Goto("rx", "rx_hdr")
            /\ iter' = NoIter
       ELSE /\ Goto("rx", "exited")
            /\ UNCHANGED iter
    /\ ro' = [ro EXCEPT !["rx"] = NoReopen]
    /\ UNCHANGED << ok, portOpen, link, chunks, faults, present_color_, header,
                    joint_state, txLocal, nodeVars >>

\* an I/O error thrown by a receive: caught, logged, reopenPort entered
RxThrow ==
    /\ ~portOpen \/ CanFault
    /\ faults' = IF portOpen THEN faults + 1 ELSE faults
    /\ iter' = [iter EXCEPT !.ioErr = TRUE]
    /\ Goto("rx", RxCatchTarget)
    /\ UNCHANGED << link, header, present_color_, joint_state >>

\* receive(header) returns one byte, then the header test
RxHeader ==
    /\ pc["rx"] = "rx_hdr"
    /\ \/ /\ portOpen
          /\ link # << >>
          /\ header' = Head(link)
          /\ link' = Tail(link)
          /\ iter' = [iter EXCEPT !.consumed = @ + Len(link) - Len(link')]
          /\ Goto("rx", IF IsHeader(Head(link)) THEN "rx_body" ELSE InvalidHeaderTarget)
          /\ UNCHANGED << faults, present_color_, joint_state >>
       \/ RxThrow
    /\ UNCHANGED << ok, portOpen, chunks, ro, txLocal, nodeVars >>

\* receive(data) returns the rest of the frame; the frame is decoded, verified and,
\* if valid, published; a colour different from present_color_ is requested
RxBody ==
    /\ pc["rx"] = "rx_body"
    /\ \/ /\ portOpen
          /\ Len(link) >= RECEIVE_PACKET_SIZE - 1
          /\ LET body   == SubSeq(link, 1, RECEIVE_PACKET_SIZE - 1)
                 data   == << header >> \o body
                 p      == fromVector(data)
                 crc_ok == Verify_CRC16_Check_Sum(data)
                 pub    == ShouldPublish(crc_ok)
                 differ == pub /\ ColorDiffers(p.robot_color, present_color_)
                 done   == [iter EXCEPT !.consumed = @ + Len(link) - Len(SubSeq(link, RECEIVE_PACKET_SIZE, Len(link))),
                                        !.body = TRUE, !.decoded = TRUE, !.verified = TRUE,
                                        !.crc_ok = crc_ok, !.published = pub,
                                        !.color = p.robot_color,
                                        !.before = IF pub THEN present_color_ ELSE @]
             IN  /\ link' = SubSeq(link, RECEIVE_PACKET_SIZE, Len(link))
                 /\ joint_state' = IF pub THEN << p.pitch, p.yaw >> ELSE joint_state
                 /\ IF differ
                    THEN \E o \in RequestOutcomes :
                            /\ iter' = [done EXCEPT !.colorReq = @ + 1,
                                                    !.reqColor = p.robot_color,
                                                    !.ready = o.ready, !.acked = o.acked,
                                                    !.seen = o.seen]
                            /\ Goto("rx", IF ColorIsSet(o.ready, o.seen)
                                          THEN "rx_setcolor" ELSE "loop")
                    ELSE /\ iter' = done
                         /\ Goto("rx", IF crc_ok THEN "loop" ELSE CrcErrorTarget)
          /\ UNCHANGED << faults, header, present_color_ >>
       \/ RxThrow
    /\ UNCHANGED << ok, portOpen, chunks, ro, txLocal, nodeVars >>

\* present_color_ = color in requestforChangeColor, which then returns to the loop
RxSetColor ==
    /\ pc["rx"] = "rx_setcolor"
    /\ present_color_' = requestforChangeColor(iter.reqColor, iter.ready, iter.seen)
    /\ Goto("rx", "loop")
    /\ UNCHANGED << ok, portOpen, link, chunks, faults, ro, header, iter, joint_state,
                    txLocal, nodeVars >>

(* ----------------------------- constructor ---------------------------- *)
\* a constructor that answers a failed open with reopenPort instead of rethrowing
CtorCatchReopen == "ro_enter"

\* a constructor that logs a failed open and carries on to the subscription
CtorCatchSwallow == "c_sub"

\* catch in the constructor: log and rethrow
CtorCatchTarget == "c_failed"

\* getParams(): declares the port settings; an invalid setting throws
CtorGetParams ==
    /\ pc["main"] = "c_getParams"
    /\ \E valid \in BOOLEAN : Goto("main", IF valid THEN "c_waitsvc" ELSE "c_failed")
    /\ UNCHANGED << ok, portOpen, link, chunks, faults, ro, rxLocal, txLocal, nodeVars >>

\* the wait for the parameter service ends (service_is_ready() is true), then
\* get_parameters({"detect_color"}, callback)
CtorGetRemoteParam ==
    /\ pc["main"] = "c_waitsvc"
    /\ fetch' = "pending"
    /\ Goto("main", "c_init_port")
    /\ UNCHANGED << ok, portOpen, link, chunks, faults, ro, rxLocal, txLocal,
                    subscribed, threadStarted, ctorOpened >>

\* init_port(), then the is_open() test
CtorInitPort ==
    /\ pc["main"] = "c_init_port"
    /\ \/ /\ Goto("main", IF portOpen THEN "c_sub" ELSE "c_open")
          /\ UNCHANGED faults
       \/ /\ CanFault
          /\ faults' = faults + 1
          /\ Goto("main", CtorCatchTarget)
    /\ UNCHANGED << ok, portOpen, link, chunks, ro, rxLocal, txLocal, nodeVars >>

\* port()->open() returns and the receive thread is started, or open throws
CtorOpen ==
    /\ pc["main"] = "c_open"
    /\ \/ /\ portOpen' = TRUE
          /\ ctorOpened' = TRUE
          /\ threadStarted' = TRUE
          /\ pc' = [pc EXCEPT !["main"] = "c_sub", !["rx"] = "loop"]
          /\ UNCHANGED faults
       \/ /\ CanFault
          /\ faults' = faults + 1
          /\ Goto("main", CtorCatchTarget)
          /\ UNCHANGED << portOpen, threadStarted, ctorOpened >>
    /\ UNCHANGED << ok, link, chunks, ro, rxLocal, txLocal, subscribed, fetch >>

\* create_subscription(/processor/target -> sendData) and the latency publisher
CtorSubscribe ==
    /\ pc["main"] = "c_sub"
    /\ subscribed' = TRUE
    /\ Goto("main", "spin")
    /\ UNCHANGED << ok, portOpen, link, chunks, faults, ro, rxLocal, txLocal,
                    threadStarted, fetch, ctorOpened >>

\* the get_parameters callback: future.get() holds one parameter and the callback
\* reads result.at(1), which throws std::out_of_range past the end
GetParametersCallback ==
    /\ pc["main"] = "spin"
    /\ fetch = "pending"
    /\ \E value \in { 0, 1 } :
          LET result == << value >>
              index  == 1
          IN  IF index + 1 <= Len(result)
              THEN /\ present_color_' = result[index + 1]
                   /\ fetch' = "done"
              ELSE /\ present_color_' = present_color_
                   /\ fetch' = "threw"
    /\ UNCHANGED << ok, portOpen, link, chunks, faults, pc, ro, header, iter, joint_state,
                    txLocal, subscribed, threadStarted, ctorOpened >>

(* ------------------------------ sendData ------------------------------ *)
\* a catch block that only logs and leaves the port as it is
SendCatchNoReopen == "tx_ret"

\* catch in sendData: log, then reopenPort()
SendCatchTarget == "ro_enter"

\* what the caller of sendData observes when the function ends after the catch
\* block: the function returns void and the exception was swallowed
SendCatchOutcome == "returned"

\* the fields sendData assigns, ahead of the checksum; target_color is read from
\* present_color_
SendFields(m) ==
    [target_found |-> m.target_found, target_color |-> (present_color_ = 0),
     task_mode |-> 0, x |-> m.x, y |-> m.y, z |-> m.z,
     vx |-> m.vx, vy |-> m.vy, vz |-> m.vz, checksum |-> 0]

\* a frame turned into bytes with its checksum field left as it was
EncodeSendNoChecksum(fields) == toVector(fields)

\* Append_CRC16_Check_Sum over the packed packet, then toVector: the packet's
\* bytes with the checksum of the first sizeof(packet) - 2 of them in the last two
EncodeSend(fields) == Append_CRC16_Check_Sum(toVector(fields))

\* the executor dispatches a command message to sendData
SendDataBegin ==
    /\ pc["main"] = "spin"
    /\ subscribed
    /\ ok
    /\ sends < MaxSends
    /\ Events < MaxEvents
    /\ \E m \in Msgs : msg' = m
    /\ sends' = sends + 1
    /\ tx' = NoTx
    /\ wire' = << >>
    /\ packet' = << >>
    /\ Goto("main", "tx_build")
    /\ UNCHANGED << ok, portOpen, link, chunks, faults, ro, rxLocal, latency, nodeVars >>

\* the packet is filled (present_color_ is read here), checksummed and turned into
\* bytes, and port()->send(data) is called
TxBuild ==
    /\ pc["main"] = "tx_build"
    /\ packet' = EncodeSend(SendFields(msg))
    /\ msg' = NoMsg
    /\ Goto("main", "tx_send")
    /\ UNCHANGED << ok, portOpen, link, chunks, faults, ro, rxLocal, tx, wire, sends,
                    latency, nodeVars >>

\* send(data) returns the number of bytes written, which sendData ignores, and the
\* latency is published; or send throws and the catch block runs
TxSend ==
    /\ pc["main"] = "tx_send"
    /\ \/ /\ portOpen
          /\ \E n \in PartialLens \cup { Len(packet) } :
                /\ wire' = SubSeq(packet, 1, n)
                /\ tx' = [tx EXCEPT !.writes = @ + 1, !.short = (n < Len(packet)),
                                    !.outcome = "returned"]
          /\ latency' = latency + 1
          /\ packet' = << >>
          /\ Goto("main", "spin")
          /\ UNCHANGED faults
       \/ /\ ~portOpen \/ CanFault
          /\ faults' = IF portOpen THEN faults + 1 ELSE faults
          /\ tx' = [tx EXCEPT !.writes = @ + 1, !.failed = TRUE]
          /\ Goto("main", SendCatchTarget)
          /\ UNCHANGED << packet, wire, latency >>
    /\ UNCHANGED << ok, portOpen, link, chunks, ro, rxLocal, msg, sends, nodeVars >>

\* sendData ends after its catch block
TxReturn ==
    /\ pc["main"] = "tx_ret"
    /\ tx' = [tx EXCEPT !.outcome = SendCatchOutcome]
    /\ packet' = << >>
    /\ ro' = [ro EXCEPT !["main"] = NoReopen]
    /\ Goto("main", "spin")
    /\ UNCHANGED << ok, portOpen, link, chunks, faults, rxLocal, msg, wire, sends,
                    latency, nodeVars >>

(* ----------------------------- destructor ----------------------------- *)
\* the executor stops spinning once shutdown is signalled and the node is destroyed
SpinExit ==
    /\ pc["main"] = "spin"
    /\ ~ok
    /\ Goto("main", "d_join")
    /\ UNCHANGED << ok, portOpen, link, chunks, faults, ro, rxLocal, txLocal, nodeVars >>

\* a destructor that goes on to close the port without waiting for the thread
JoinSkipped == TRUE

\* if (joinable()) join(): join returns once receiveData has returned
JoinReturns == threadStarted => pc["rx"] = "exited"

\* the destructor is past its join
DtorPastJoin == pc["main"] \in { "d_close", "d_ctx", "destroyed" }

\* if (joinable()) join(); then the is_open() test
DtorJoin ==
    /\ pc["main"] = "d_join"
    /\ JoinReturns
    /\ threadStarted' = FALSE
    /\ Goto("main", IF portOpen THEN "d_close" ELSE "d_ctx")
    /\ UNCHANGED << ok, portOpen, link, chunks, faults, ro, rxLocal, txLocal,
                    subscribed, fetch, ctorOpened >>

\* port()->close()
DtorClose ==
    /\ pc["main"] = "d_close"
    /\ portOpen' = FALSE
    /\ Goto("main", "d_ctx")
    /\ UNCHANGED << ok, link, chunks, faults, ro, rxLocal, txLocal, nodeVars >>

\* owned_ctx_->waitForExit()
DtorWaitForExit ==
    /\ pc["main"] = "d_ctx"
    /\ Goto("main", "destroyed")
    /\ UNCHANGED << ok, portOpen, link, chunks, faults, ro, rxLocal, txLocal, nodeVars >>

(* ----------------------------- environment ---------------------------- *)
\* the process is told to shut down
Shutdown ==
    /\ ok
    /\ ok' = FALSE
    /\ UNCHANGED << portOpen, link, chunks, faults, pc, ro, rxLocal, txLocal, nodeVars >>

\* the peer puts another chunk on the link while the receiver is short of a frame
PeerSend ==
    /\ chunks < MaxChunks
    /\ Events < MaxEvents
    /\ Len(link) < RECEIVE_PACKET_SIZE
    /\ \E c \in ChunkSet : link' = link \o c
    /\ chunks' = chunks + 1
    /\ UNCHANGED << ok, portOpen, faults, pc, ro, rxLocal, txLocal, nodeVars >>

(* --------------------------- specification ---------------------------- *)
RxStep == RxLoop \/ RxHeader \/ RxBody \/ RxSetColor
           \/ ReopenEnter("rx") \/ ReopenClose("rx") \/ ReopenOpen("rx")
           \/ ReopenCatch("rx") \/ ReopenSleep("rx") \/ ReopenReturn("rx")

\* steps of the main thread other than the arrival of a command
MainRun == CtorGetParams \/ CtorGetRemoteParam \/ CtorInitPort \/ CtorOpen
             \/ CtorSubscribe \/ GetParametersCallback \/ TxBuild \/ TxSend \/ TxReturn
             \/ ReopenEnter("main") \/ ReopenClose("main") \/ ReopenOpen("main")
             \/ ReopenCatch("main") \/ ReopenSleep("main") \/ ReopenReturn("main")
             \/ SpinExit \/ DtorJoin \/ DtorClose \/ DtorWaitForExit

MainStep == MainRun \/ SendDataBegin

EnvStep == Shutdown \/ PeerSend

Next == RxStep \/ MainStep \/ EnvStep

Spec == Init /\ [][Next]_vars

\* both threads keep being scheduled: a step of the program that is possible
\* without a new I/O error is eventually taken
FairSpec ==
    /\ Spec
    /\ WF_vars(RxStep /\ faults' = faults)
    /\ WF_vars(MainRun /\ faults' = faults)

(* ------------------------------ claims -------------------------------- *)
\* the receive iteration has read a header byte that is not the sentinel
HeaderMismatch == iter.consumed > 0 /\ header # HEADER

\* C1: a header byte other than 0x5A is never followed, in that iteration, by a
\* body read, a decode or a checksum verification; the mismatch takes exactly one
\* byte off the link and the worker is back at the while test, from where the
\* next thing it reads is a single header byte.
C1_HeaderMismatchSkipsFrame ==
    HeaderMismatch =>
        /\ pc["rx"] \in { "loop", "exited" }
        /\ iter.consumed = 1
        /\ ~iter.body /\ ~iter.decoded /\ ~iter.verified
        /\ ~iter.published /\ iter.colorReq = 0 /\ ~iter.ioErr

\* a stray byte was read and dropped, with the rest of the chunk still on the link
C1_Witness ==
    /\ pc["rx"] = "loop"
    /\ header = 165
    /\ iter.consumed = 1
    /\ link # << >>

\* C2: a joint state is published in an iteration exactly when the header was 0x5A
\* and the frame's checksum verified; a frame whose checksum fails gives no joint
\* state and no colour request, its bytes are consumed (not read again), and the
\* worker is back at the while test; an iteration that ends without an I/O error
\* has consumed 1 byte or sizeof(ReceivePacket) bytes.
C2_PublishIffVerified ==
    /\ iter.published <=> (iter.consumed > 0 /\ header = HEADER /\ iter.verified /\ iter.crc_ok)
    /\ iter.published => joint_state # << >>
    /\ (iter.verified /\ ~iter.crc_ok) =>
           /\ ~iter.published
           /\ iter.colorReq = 0
           /\ iter.consumed = RECEIVE_PACKET_SIZE
           /\ pc["rx"] \in { "loop", "exited" }
    /\ (pc["rx"] \in { "loop", "exited" } /\ ~iter.ioErr /\ iter.consumed > 0) =>
           iter.consumed \in { 1, RECEIVE_PACKET_SIZE }
    /\ iter.consumed \in { 0, 1, RECEIVE_PACKET_SIZE }

\* a frame was published earlier and the frame just read failed its checksum
C2_Witness ==
    /\ pc["rx"] = "loop"
    /\ iter.verified /\ ~iter.crc_ok
    /\ iter.consumed = RECEIVE_PACKET_SIZE
    /\ joint_state # << >>

\* C3: when reopenPort returns and no shutdown has been signalled, its last open
\* succeeded; open was called once more than it failed; one sleep was taken for
\* every failure, and no attempt was started after a failure without a sleep in
\* between.
C3_ReopenRetriesWithWait ==
    \A f \in Flows :
        (pc[f] = "ro_ret" /\ ok) =>
            /\ ro[f].last = "ok"
            /\ ~ro[f].busy /\ ~ro[f].unwaited
            /\ ro[f].opens < MaxCount => ro[f].opens = ro[f].ofails + 1
            /\ ro[f].waits < MaxCount => ro[f].waits = ro[f].ofails + ro[f].cfails

\* while an attempt is being made, every earlier failure has been slept on
C3_NoBusyLoop ==
    \A f \in Flows : InReopenSection(f) => ~ro[f].busy /\ ~ro[f].unwaited

C3_ReopenReturnsAfterSuccess == C3_ReopenRetriesWithWait /\ C3_NoBusyLoop

\* reopenPort returns after open failed at least once and then succeeded
C3_Witness ==
    \E f \in Flows :
        /\ pc[f] = "ro_ret" /\ ok
        /\ ro[f].ofails >= 1 /\ ro[f].opens = ro[f].ofails + 1
        /\ ro[f].waits >= 1
        /\ ro[f].last = "ok"

\* reopenPort of the receive worker has returned without reopening the port
RxReopenGaveUp == pc["rx"] = "loop" /\ ro["rx"].last = "fail"

\* C4: reopenPort returns only after a successful open or once shutdown has been
\* signalled; when it returns to the receive loop without having reopened the
\* port, the worker issues no further read: its next step leaves the loop.
C4_ReopenReturnCases ==
    /\ [](\A f \in Flows : pc[f] = "ro_ret" => (ro[f].last = "ok" \/ ~ok))
    /\ [](\A f \in Flows : (pc[f] = "ro_ret" /\ ro[f].last # "ok") => ~ok)
    /\ [][RxReopenGaveUp => pc'["rx"] \in { "loop", "exited" }]_vars

\* the receive worker is back from a reopenPort that gave up on shutdown
C4_Witness == RxReopenGaveUp /\ ~ok /\ ~portOpen

\* C5: the receive loop and the send path are never both inside the close/open
\* sequence of reopenPort.
C5_OneReopenAtATime == ~(InReopenSection("rx") /\ InReopenSection("main"))

\* C6: at most one flow is inside a port operation (receive, send, close, open)
\* at any time.
C6_SerializedChannelAccess == ~(InPortOp("rx") /\ InPortOp("main"))

\* sendData has ended for a command whose write threw
SendFailedAndEnded == tx.failed /\ tx.outcome # "none"

C8_ShortWriteIsFailure ==
    (tx.short /\ tx.outcome # "none") => (tx.failed /\ tx.reopened)

\* an I/O error has been raised before the receive worker was ever started
CtorIoFailure == faults > 0 /\ pc["rx"] = "none"

\* C9: a failure of init_port or open in the constructor ends the constructor
\* with the exception rethrown: no reopenPort, no second open, no receive worker,
\* no subscription.  Once the port has been opened, an I/O error in receiveData
\* or sendData is caught there and leads into reopenPort; it never leaves
\* those functions.
C9_StartupFatalRuntimeRecovered ==
    /\ CtorIoFailure => pc["main"] = "c_failed"
    /\ pc["main"] = "c_failed" =>
           /\ ~threadStarted /\ pc["rx"] = "none"
           /\ ~subscribed
           /\ ~portOpen
           /\ ro["main"] = NoReopen /\ ~tx.reopened
    /\ pc["rx"] # "none" => pc["main"] # "c_failed"
    /\ iter.ioErr => (InReopen("rx") \/ pc["rx"] \in { "loop", "exited" })
    /\ tx.failed => (InReopen("main") \/ pc["main"] = "tx_ret" \/ tx.outcome = "returned")
    /\ pc["rx"] \in { "none", "loop", "rx_hdr", "rx_body", "rx_setcolor", "exited",
                      "ro_enter", "ro_close", "ro_open", "ro_catch", "ro_sleep", "ro_ret" }

\* the constructor has failed on an I/O error
C9_CtorFailedWitness == pc["main"] = "c_failed" /\ faults > 0

\* a receive error and a send error were both caught and led into reopenPort
C9_Witness == iter.ioErr /\ tx.failed /\ InReopen("rx") /\ InReopen("main")

\* teardown has ended: the destructor has run, or the constructor never completed
TornDown == pc["main"] \in { "destroyed", "c_failed" }

\* C10: after a shutdown signal the receive worker leaves its loop and the
\* destructor's join completes, so teardown ends.
C10_TeardownTerminates == (~ok) ~> TornDown

\* C11: once the destructor is past its join (closing the port, or done with it),
\* the receive worker has returned from receiveData, or was never started: it is
\* not running, is in no read and in no reopenPort, and the thread is joined.
C11_JoinBeforeClose ==
    DtorPastJoin =>
        /\ pc["rx"] \in { "none", "exited" }
        /\ ~InPortOp("rx") /\ ~InReopen("rx")
        /\ ~threadStarted

\* the destructor is closing the port after the worker has read bytes and returned
C11_Witness ==
    /\ pc["main"] = "d_close"
    /\ pc["rx"] = "exited"
    /\ ~threadStarted
    /\ iter.consumed > 0

\* C12: an I/O error arises only in the header read or the body read and takes
\* the worker straight into reopenPort, in the worker's own flow; reopenPort
\* returns to the while test and nowhere else; from there, with no shutdown
\* signalled, the next thing the worker does is a one-byte header read in a
\* fresh iteration, whatever header byte the interrupted iteration had read.
C12_IoErrorReopensThenFreshHeader ==
    /\ [][(~iter.ioErr /\ iter'.ioErr) =>
              (pc["rx"] \in { "rx_hdr", "rx_body" } /\ pc'["rx"] = "ro_enter")]_vars
    /\ [](iter.ioErr => (InReopen("rx") \/ pc["rx"] \in { "loop", "exited" }))
    /\ [][(pc["rx"] = "ro_ret" /\ pc'["rx"] # "ro_ret") => pc'["rx"] = "loop"]_vars
    /\ [][(pc["rx"] = "loop" /\ iter.ioErr /\ ok /\ pc'["rx"] # "loop") =>
              (pc'["rx"] = "rx_hdr" /\ iter' = NoIter)]_vars

\* the body read failed after the header byte had been read, reopenPort has
\* reopened the port and the worker is back at the while test
C12_Witness ==
    /\ pc["rx"] = "loop" /\ ok /\ portOpen
    /\ iter.ioErr /\ iter.consumed = 1 /\ header = HEADER
    /\ ro["rx"].last = "ok"

\* C13: while sendData is inside port()->send, the frame it handed over is
\* sizeof(SendPacket) bytes long and its last two bytes are the checksum of the
\* bytes before them; what the port then accepted is a prefix of a frame of that
\* kind, and when it accepted all of it, the bytes on the wire verify.
C13_SentFrameIsChecksummed ==
    /\ pc["main"] = "tx_send" =>
           /\ Len(packet) = SEND_PACKET_SIZE
           /\ Verify_CRC16_Check_Sum(packet)
           /\ packet = Append_CRC16_Check_Sum(packet)
    /\ Len(wire) \in { 0, SEND_PACKET_SIZE } \cup PartialLens
    /\ Len(wire) = SEND_PACKET_SIZE => Verify_CRC16_Check_Sum(wire)
    /\ pc["main"] \in { "spin", "tx_build" } => packet = << >>

\* a whole command frame has been written to the port
C13_Witness ==
    /\ pc["main"] = "spin"
    /\ tx.writes = 1 /\ ~tx.failed /\ ~tx.short
    /\ Len(wire) = SEND_PACKET_SIZE

\* the frame of this iteration passed its checksum
ValidFrame == iter.verified /\ iter.crc_ok

\* C14: in an iteration whose frame passed its checksum, requestforChangeColor is
\* called once, with the decoded colour, when that colour differs from
\* present_color_ as the test read it, and not at all when the two are equal; an
\* iteration without a valid frame makes no request.
C14_OneRequestPerMismatch ==
    /\ iter.colorReq \in { 0, 1 }
    /\ ValidFrame =>
           /\ iter.colorReq = (IF iter.color # iter.before THEN 1 ELSE 0)
           /\ iter.colorReq = 1 => iter.reqColor = iter.color
    /\ ~ValidFrame => iter.colorReq = 0
    /\ iter.colorReq = 0 => (iter.reqColor = -1 /\ pc["rx"] # "rx_setcolor")

\* a colour is cached and a valid frame carrying the other colour was answered
\* with one request
C14_Witness ==
    /\ ValidFrame
    /\ iter.before \in { 0, 1 }
    /\ iter.color # iter.before
    /\ iter.colorReq = 1 /\ iter.reqColor = iter.color

\* C15: when requestforChangeColor has returned from a request that the authority
\* answered with success, present_color_ is the decoded colour.
C15_AckedColorIsCached ==
    (pc["rx"] = "loop" /\ iter.colorReq = 1 /\ iter.acked = "success") =>
        present_color_ = iter.color

\* the colour request of this iteration failed: service not ready, or the
\* authority answered with failure
RequestFailed == iter.colorReq = 1 /\ (~iter.ready \/ iter.acked = "failure")

\* C16: after a failed colour request present_color_ is what it was when the
\* mismatch was detected, the assignment in requestforChangeColor is not reached,
\* and the worker is back at the while test (which it leaves only on shutdown).
C16_FailedRequestKeepsColor ==
    RequestFailed =>
        /\ present_color_ = iter.before
        /\ ~iter.seen
        /\ pc["rx"] \in { "loop", "exited" }
        /\ pc["rx"] = "exited" => ~ok

\* the authority refused the request and the worker is back at the while test
C16_Witness ==
    /\ RequestFailed /\ iter.acked = "failure"
    /\ pc["rx"] = "loop"
    /\ present_color_ = UNKNOWN_COLOR

\* C17: once the initial get_parameters callback has run, present_color_ is no
\* longer -1.
C17_FetchedColorIsCached ==
    fetch \in { "done", "threw" } => present_color_ # UNKNOWN_COLOR

\* this iteration met a frame-level error: a byte that is not the header
\* sentinel, or a frame whose checksum does not verify
FrameError == HeaderMismatch \/ (iter.verified /\ ~iter.crc_ok)

\* C18: a frame-level error leaves the worker at the while test with no I/O error
\* recorded and no reopenPort entered in that iteration; the step that detects it
\* does not change whether the port is open; and the loop is left only on
\* shutdown.
C18_FrameErrorsStayLocal ==
    /\ [](FrameError =>
              /\ pc["rx"] \in { "loop", "exited" }
              /\ ~InReopen("rx") /\ ro["rx"] = NoReopen
              /\ ~iter.ioErr
              /\ pc["rx"] = "exited" => ~ok)
    /\ [][(~FrameError /\ FrameError') =>
              (portOpen' = portOpen /\ pc'["rx"] = "loop" /\ ro' = ro)]_vars

\* a checksum failure was dropped with the port left open and untouched
C18_Witness ==
    /\ FrameError /\ iter.verified
    /\ pc["rx"] = "loop" /\ ok
    /\ portOpen /\ faults = 0

\* C19: the worker is never inside its write of present_color_ while the executor
\* thread is inside a read of it.
C19_ColorAccessExclusive ==
    \A f, g \in Flows : ~(WritingColor(f) /\ ReadingColor(g))

\* C20: the receive thread exists, the subscription exists, and a read or a send
\* is in progress, only after the constructor's open has returned without error;
\* sendData runs only once the subscription exists; and until that open the port
\* is closed.
C20_NoIoBeforeInitialOpen ==
    /\ (threadStarted \/ pc["rx"] # "none") => ctorOpened
    /\ subscribed => ctorOpened
    /\ (pc["rx"] \in { "rx_hdr", "rx_body" } \/ pc["main"] \in { "tx_build", "tx_send" })
           => ctorOpened
    /\ pc["main"] \in { "tx_build", "tx_send", "tx_ret" } => subscribed
    /\ ~ctorOpened => (~portOpen /\ sends = 0 /\ iter = NoIter)

\* the worker is reading and sendData is writing, after the constructor's open
C20_Witness ==
    /\ ctorOpened /\ subscribed
    /\ pc["rx"] = "rx_hdr"
    /\ pc["main"] = "tx_send"
    /\ portOpen

====
